---- MODULE Spec2Model ----
(***************************************************************************)
(* Relationship resolution (BaseRelationship) and the Postgres connection  *)
(* pool (PostgresConnection) of masonite-orm, as state machines.           *)
(*                                                                         *)
(* Spec      relationship engine: root queries, eager loading, lazy        *)
(*           access, class-level access, where_has; one step per call.     *)
(* SpecDesc  two callers inside BaseRelationship.__get__ on one shared     *)
(*           descriptor, one step per statement.                           *)
(* SpecConn  PostgresConnection objects sharing CONNECTION_POOL, one step  *)
(*           per statement of query / make_connection / close_connection.  *)
(* SpecMut   attach / detach / detach_related on one owner, followed by    *)
(*           lazy reads of its relationships.                              *)
(* SpecHas   has / doesnt_have / where_has / where_doesnt_have.            *)
(* SpecKeys  get_related on a single owner and on collections of owners.   *)
(* SpecTx    one PostgresConnection: queries, begin, commit, rollback.     *)
(***************************************************************************)
EXTENDS Integers, Sequences, FiniteSets, TLC

VARIABLES
    course,       \* table "course": sequence of rows
    student,      \* table "student"
    enrolment,    \* table "enrolment" (pivot of students, related of enrolments)
    descriptor,   \* relationship name -> descriptor object shared by the class
    owners,       \* the current result set: sequence of hydrated entities
    op,           \* the last call made
    ret,          \* what the last call returned
    queries,      \* the queries the last call issued, in order
    keyReads,     \* reads of the owner's key attribute made by the last call
    repeat,       \* the last call read the same relationship of the same entity
                  \* as the call before it
    sameRet       \* ... and returned the value the call before it returned

relVars == <<course, student, enrolment, descriptor, owners, op, ret, queries,
             keyReads, repeat, sameRet>>

VARIABLES
    caller        \* SpecDesc: caller -> where it is inside __get__ and what it holds

VARIABLES
    cfg,          \* SpecConn: full_details of the connections
    pool,         \* CONNECTION_POOL: sequence of physical connections (or None)
    closed,       \* the physical connections that have been closed
    autocommit,   \* physical connection -> its autocommit flag
    conn,         \* PostgresConnection object -> its fields and its thread's position
    out           \* PostgresConnection object -> outcome of its last finished call

connVars == <<cfg, pool, closed, autocommit, conn, out>>

vars == <<relVars, caller, connVars>>

\* what the steps of each part leave alone
RelFrame == UNCHANGED <<caller, connVars>>
DescFrame == UNCHANGED <<course, student, enrolment, owners, op, ret, queries,
                         keyReads, repeat, sameRet, connVars>>
ConnFrame == UNCHANGED <<relVars, caller>>

----------------------------------------------------------------------------
(* Bounds *)

MaxPivot == 2       \* longest generated enrolment table
MaxPhys == 2        \* physical connections alive at once
MaxPoolSize == 1    \* largest configured connection_pooling_max_size
MaxMinSize == 2     \* largest configured connection_pooling_min_size
MaxMutRows == 2     \* longest enrolment table attach and detach start from
MaxOwners == 3      \* longest Collection of owners handed to get_related
MaxLevel == 2       \* transaction_level explored: -MaxLevel .. MaxLevel

(* Program constants *)

NULL == 0           \* Python None stored in a column

----------------------------------------------------------------------------
(* Test database: tests/.../test_sqlite_has_many_through_relationship.py *)

CourseFixture ==
    << [course_id |-> 10, name |-> "Math 101"],
       [course_id |-> 20, name |-> "History 101"],
       [course_id |-> 30, name |-> "Math 302"],
       [course_id |-> 40, name |-> "Biology 302"] >>

StudentFixture ==
    << [student_id |-> 100, name |-> "Bob"],
       [student_id |-> 200, name |-> "Alice"],
       [student_id |-> 300, name |-> "Steve"],
       [student_id |-> 400, name |-> "Megan"] >>

\* (active_student_id, in_course_id) in insertion order
EnrolmentFixture ==
    << <<100, 30>>, <<200, 10>>, <<100, 10>>, <<400, 20>> >>

\* bulk_create: the integer primary key enrolment_id is the insertion rank
BulkCreateEnrolment(pairs) ==
    [i \in 1..Len(pairs) |->
        [enrolment_id |-> i,
         active_student_id |-> pairs[i][1],
         in_course_id |-> pairs[i][2]]]

\* (student, course) pairs the generated enrolment tables draw from; 500 is
\* the key of no student row
PivotPairs == {<<100, 10>>, <<200, 10>>, <<500, 20>>}

SeqsUpTo(S, n) == UNION {[1..k -> S] : k \in 0..n}

EnrolmentTables ==
    {BulkCreateEnrolment(p) :
        p \in SeqsUpTo(PivotPairs, MaxPivot) \cup {EnrolmentFixture}}

----------------------------------------------------------------------------
(* Collection and query builder, as the relationship engine uses them *)

Table(t) ==
    CASE t = "course" -> course
      [] t = "student" -> student
      [] t = "enrolment" -> enrolment

InSeq(x, s) == \E i \in 1..Len(s) : s[i] = x

ToSet(seq) == {seq[i] : i \in 1..Len(seq)}

RECURSIVE Unique(_)
\* Collection.unique(): first occurrences, order kept
Unique(s) ==
    IF s = <<>> THEN <<>>
    ELSE LET init == Unique(SubSeq(s, 1, Len(s) - 1))
             x == s[Len(s)]
         IN IF InSeq(x, init) THEN init ELSE Append(init, x)

\* Collection._get_value(key): the attribute of every entity, in order
GetValue(items, key) == [i \in 1..Len(items) |-> items[i].attrs[key]]

RECURSIVE SortedSeq(_)
SortedSeq(S) ==
    IF S = {} THEN <<>>
    ELSE LET m == CHOOSE x \in S : \A y \in S : x <= y
         IN <<m>> \o SortedSeq(S \ {m})

\* A query: SELECT * FROM table WHERE column IN vals [AND EXISTS (...)] [LIMIT 1].
\* A NULL column value matches no value of the list.
NoExists == [mode |-> "none", table |-> "none", foreign_key |-> "none",
             local_key |-> "none", pcol |-> "none", pval |-> NULL]

Query(o, t, c, v, lim) ==
    [op |-> o, table |-> t, column |-> c, vals |-> v, limit |-> lim,
     exists |-> NoExists, rel |-> "none"]

\* query-count instrumentation: the relationship a query was issued for
TagRel(name, qs) == [i \in 1..Len(qs) |-> [qs[i] EXCEPT !.rel = name]]

\* EXISTS (SELECT * FROM e.table WHERE e.table.foreign_key = outer.local_key
\*         [AND pcol = pval])
ExistsHolds(e, outer) ==
    \E i \in 1..Len(Table(e.table)) :
        LET r == Table(e.table)[i]
        IN /\ r[e.foreign_key] # NULL
           /\ r[e.foreign_key] = outer[e.local_key]
           /\ (e.pcol # "none" => r[e.pcol] = e.pval)

RowMatches(q, r) ==
    /\ (q.column # "*" => (r[q.column] # NULL /\ InSeq(r[q.column], q.vals)))
    /\ (q.exists.mode = "where_exists" => ExistsHolds(q.exists, r))
    /\ (q.exists.mode = "where_not_exists" => ~ExistsHolds(q.exists, r))

Limit(q, rows) == IF q.limit = 1 /\ rows # <<>> THEN <<Head(rows)>> ELSE rows

Exec(q) == Limit(q, SelectSeq(Table(q.table), LAMBDA r : RowMatches(q, r)))

\* Collection.pluck(col) over rows
Pluck(rows, col) == [i \in 1..Len(rows) |-> rows[i][col]]

----------------------------------------------------------------------------
(* Entities and resolved values *)

RelNames == {"enrolments", "students"}

NoRels == [n \in {} |-> NULL]

Hydrate(row) == [attrs |-> row, loaded |-> TRUE, rels |-> NoRels]

\* builder._model: an instance that stands for the class in a query scope
Placeholder == [attrs |-> [course_id |-> NULL, name |-> ""], loaded |-> FALSE,
                rels |-> NoRels]

None == [kind |-> "None", rows |-> <<>>]
Coll(rows) == [kind |-> "Collection", rows |-> rows]
\* the descriptor itself; __getattr__ hands every attribute lookup on it to
\* the related model's builder
SelfRef == [kind |-> "Descriptor", rows |-> <<>>]

----------------------------------------------------------------------------
(* Relationship descriptors: BaseRelationship *)

NoFn == [callable |-> FALSE, name |-> "none", related |-> "none"]
NoBuilder == [table |-> "unset", by |-> "none"]

\* BaseRelationship.__init__(fn, local_key, foreign_key). fn is either a
\* callable (the decorated method: its __name__ and the model it returns) or
\* a string, which then is the local key and shifts the other argument.
Init__(fn, local_key, foreign_key) ==
    IF ~fn.callable
    THEN [fn |-> NoFn, local_key |-> fn.name, foreign_key |-> local_key,
          kind |-> "Base", through |-> "none", through_local_key |-> "none",
          through_foreign_key |-> "none", _related_builder |-> NoBuilder]
    ELSE [fn |-> fn, local_key |-> local_key, foreign_key |-> foreign_key,
          kind |-> "Base", through |-> "none", through_local_key |-> "none",
          through_foreign_key |-> "none", _related_builder |-> NoBuilder]

\* BaseRelationship.__call__(fn): the decorator with arguments receives the method
Call__(d, fn) == IF fn.callable THEN [d EXCEPT !.fn = fn] ELSE d

Str(s) == [callable |-> FALSE, name |-> s, related |-> "none"]
Method(n, model) == [callable |-> TRUE, name |-> n, related |-> model]

\* class Course:  @has_many("course_id", "in_course_id") def enrolments(self): return Enrolment
EnrolmentsDecl ==
    [Call__(Init__(Str("course_id"), "in_course_id", "none"),
            Method("enrolments", "enrolment"))
     EXCEPT !.kind = "HasMany"]

\* class Course:  @has_many_through(None, "in_course_id", "active_student_id",
\*                                  "course_id", "student_id")
\*                def students(self): return [Student, Enrolment]
StudentsDecl ==
    [fn |-> Method("students", "student"), local_key |-> "course_id",
     foreign_key |-> "student_id", kind |-> "HasManyThrough",
     through |-> "enrolment", through_local_key |-> "in_course_id",
     through_foreign_key |-> "active_student_id", _related_builder |-> NoBuilder]

Declared == [n \in RelNames |-> IF n = "enrolments" THEN EnrolmentsDecl ELSE StudentsDecl]

\* BaseRelationship.get_builder
get_builder(d) == d._related_builder

RECURSIVE ConcatMatches(_, _, _)
\* the rows whose column equals vals[1], then those equal to vals[2], ...
ConcatMatches(vals, rows, col) ==
    IF vals = <<>> THEN <<>>
    ELSE SelectSeq(rows, LAMBDA r : r[col] = Head(vals))
            \o ConcatMatches(Tail(vals), rows, col)

\* the key values of the owners: the distinct local keys of a Collection
\* (Collection(relation._get_value(local_key)).unique()), or the local key of
\* the one entity
OwnerKeys(d, relation) ==
    IF relation.many
    THEN Unique(GetValue(relation.items, d.local_key))
    ELSE <<relation.items[1].attrs[d.local_key]>>

Batch(qs, rows, pivots) == [queries |-> qs, rows |-> rows, pivots |-> pivots]

\* HasManyThrough, two hops: the pivot rows of the owners (q1), then the
\* related rows whose key is one of the pivot rows' distinct keys (q2)
through_hop2(q1, pivots, q2) == Batch(<<q1, q2>>, Exec(q2), pivots)

through_hop1(d, q1, pivots) ==
    through_hop2(q1, pivots,
                 Query("where_in", get_builder(d).table, d.foreign_key,
                       Unique(Pluck(pivots, d.through_foreign_key)), 0))

through_pivots(d, q1) == through_hop1(d, q1, Exec(q1))

through_get_related(d, relation) ==
    through_pivots(d, Query(IF relation.many THEN "where_in" ELSE "where",
                            d.through, d.through_local_key,
                            OwnerKeys(d, relation), 0))

\* the value of one owner out of a through result: None without pivot rows,
\* else the related rows in the order of the owner's pivot rows
through_value(d, mine, batch) ==
    IF mine = <<>> THEN None
    ELSE Coll(ConcatMatches(Unique(Pluck(mine, d.through_foreign_key)),
                            batch.rows, d.foreign_key))

\* registration that hands every owner the whole batch
through_register_Ungrouped(d, e, batch) == through_value(d, batch.pivots, batch)

through_register(d, e, batch) ==
    through_value(d, SelectSeq(batch.pivots,
                               LAMBDA p : p[d.through_local_key] = e.attrs[d.local_key]),
                  batch)

RunQuery(q) == Batch(<<q>>, Exec(q), <<>>)

\* BaseRelationship.get_related(query, relation): one query, where_in over the
\* distinct local keys of a Collection, where on the local key of one entity.
get_related_PerOwner(d, relation) ==
    Batch([i \in 1..Len(relation.items) |->
              Query("where", get_builder(d).table, d.foreign_key,
                    <<relation.items[i].attrs[d.local_key]>>, 0)],
          Exec(Query("where_in", get_builder(d).table, d.foreign_key,
                     OwnerKeys(d, relation), 0)),
          <<>>)

get_related_WrongColumn(d, relation) ==
    RunQuery(Query(IF relation.many THEN "where_in" ELSE "where",
                   get_builder(d).table, "enrolment_id", OwnerKeys(d, relation), 0))

\* a batch query over the owners' keys as they come, duplicates included
get_related_NoUnique(d, relation) ==
    RunQuery(Query(IF relation.many THEN "where_in" ELSE "where",
                   get_builder(d).table, d.foreign_key,
                   GetValue(relation.items, d.local_key), 0))

get_related(d, relation) ==
    IF relation.many
    THEN RunQuery(Query("where_in", get_builder(d).table, d.foreign_key,
                        Unique(GetValue(relation.items, d.local_key)), 0))
    ELSE RunQuery(Query("where", get_builder(d).table, d.foreign_key,
                        <<relation.items[1].attrs[d.local_key]>>, 0))

\* batch resolution of one relationship for the owners `relation`
Resolve(d, relation) ==
    IF d.kind = "HasManyThrough" THEN through_get_related(d, relation)
    ELSE get_related(d, relation)

\* the value written into one owner's _relationships out of a batch result
Register(d, e, batch) ==
    IF d.kind = "HasManyThrough" THEN through_register(d, e, batch)
    ELSE Coll(SelectSeq(batch.rows,
                        LAMBDA r : r[d.foreign_key] = e.attrs[d.local_key]))

Resolved(value, qs, reads) == [ret |-> value, queries |-> qs, keyReads |-> reads]

apply_through(d, instance, batch) ==
    Resolved(through_register(d, instance, batch), batch.queries, 1)

apply_direct(q) == Resolved(Coll(Exec(q)), <<q>>, 1)

\* apply_query(builder, instance) of the relationship kinds: the single-owner
\* resolution; it reads the owner's key attribute once.
apply_query(d, builder, instance) ==
    IF d.kind = "HasManyThrough"
    THEN apply_through(d, instance,
                       through_get_related(d, [many |-> FALSE, items |-> <<instance>>]))
    ELSE apply_direct(Query("where", builder.table, d.foreign_key,
                            <<instance.attrs[d.local_key]>>, 0))

\* line 57: self._related_builder = relationship.builder, the builder of a
\* new instance of the related model (self.fn(instance)()), made for `by`
StoreBuilder(d, by) ==
    [d EXCEPT !._related_builder = [table |-> d.fn.related, by |-> by]]

\* an accessor that resolves a loaded instance whatever its cache holds
Get__IgnoresCache(d, attribute, instance, by) ==
    [d |-> StoreBuilder(d, by),
     r |-> IF instance.loaded
           THEN apply_query(StoreBuilder(d, by), StoreBuilder(d, by)._related_builder,
                            instance)
           ELSE Resolved(SelfRef, <<>>, 0)]

NoneAsEmpty(r) == IF r.ret.kind = "None" THEN [r EXCEPT !.ret = Coll(<<>>)] ELSE r

\* BaseRelationship.__get__(instance, owner), called by `by`: the descriptor
\* as the call leaves it (d) and what the call returns (r)
Get__AlwaysResolves(d, attribute, instance, by) ==
    [d |-> StoreBuilder(d, by),
     r |-> apply_query(StoreBuilder(d, by), StoreBuilder(d, by)._related_builder,
                       instance)]

Get__NoneAsEmpty(d, attribute, instance, by) ==
    [d |-> StoreBuilder(d, by),
     r |-> IF instance.loaded
           THEN IF attribute \in DOMAIN instance.rels
                THEN NoneAsEmpty(Resolved(instance.rels[attribute], <<>>, 0))
                ELSE NoneAsEmpty(apply_query(StoreBuilder(d, by),
                                             StoreBuilder(d, by)._related_builder,
                                             instance))
           ELSE Resolved(SelfRef, <<>>, 0)]

Get__(d, attribute, instance, by) ==
    \* set_keys leaves declared keys alone
    [d |-> StoreBuilder(d, by),
     r |-> IF instance.loaded
           THEN IF attribute \in DOMAIN instance.rels
                THEN Resolved(instance.rels[attribute], <<>>, 0)
                ELSE apply_query(StoreBuilder(d, by),
                                 StoreBuilder(d, by)._related_builder, instance)
           ELSE Resolved(SelfRef, <<>>, 0)]

\* BaseRelationship.__getattr__(attribute): the lookup goes to the builder of a
\* new instance of the related model
Getattr__(d, attribute) == [table |-> d.fn.related, attribute |-> attribute]

\* BaseRelationship.query_where_exists(builder, callback, method): the
\* correlated clause added to `builder`; the callback adds pcol = pval
query_where_exists_NoCallback(d, builderTable, callback, method) ==
    [mode |-> method, table |-> get_builder(d).table,
     foreign_key |-> d.foreign_key, local_key |-> d.local_key,
     pcol |-> "none", pval |-> NULL]

query_where_exists(d, builderTable, callback, method) ==
    [mode |-> method, table |-> get_builder(d).table,
     foreign_key |-> d.foreign_key, local_key |-> d.local_key,
     pcol |-> callback.pcol, pval |-> callback.pval]

\* a clause that is EXISTS whatever the method
query_has_AlwaysExists(d, builderTable, method) ==
    [mode |-> "where_exists", table |-> get_builder(d).table,
     foreign_key |-> d.foreign_key, local_key |-> d.local_key,
     pcol |-> "none", pval |-> NULL]

\* BaseRelationship.query_has(current_query_builder, method): the correlated
\* clause added to the current builder, without a callback
query_has(d, builderTable, method) ==
    [mode |-> method, table |-> get_builder(d).table,
     foreign_key |-> d.foreign_key, local_key |-> d.local_key,
     pcol |-> "none", pval |-> NULL]

----------------------------------------------------------------------------
(* The relationship engine, one step per call *)

\* where_has callbacks: none, or lambda q: q.where(pcol, pval)
Callbacks ==
    {[pcol |-> "none", pval |-> NULL]}
        \cup {[pcol |-> "active_student_id", pval |-> v] : v \in {100, 200}}

AlwaysTrue == [pcol |-> "none", pval |-> NULL]

\* root queries: Course.where_in("course_id", K); 50 is the key of no course
RootKeySets == {{10}, {20}, {40}, {50}, {10, 20, 30, 40}}

NoOp == [name |-> "none", rel |-> "none", idx |-> 0, keys |-> {}, eagers |-> {},
         callback |-> AlwaysTrue, rec |-> 0, method |-> "none"]

NotRepeated == repeat' = FALSE /\ sameRet' = FALSE

HydrateAll(rows) == [i \in 1..Len(rows) |-> Hydrate(rows[i])]

\* eager loading of one relationship for the owners ents: the descriptor is
\* looked up on the model of the query scope (d2), resolved once for all
\* owners (batch), and each owner's value is registered
EagerRegister(d2, ents, batch) ==
    [d |-> d2, queries |-> TagRel(d2.fn.name, batch.queries),
     val |-> [i \in 1..Len(ents) |-> Register(d2, ents[i], batch)]]

EagerResolve(d2, ents, many) ==
    EagerRegister(d2, ents, Resolve(d2, [many |-> many, items |-> ents]))

EagerOf(n, ents, many) ==
    EagerResolve(Get__(descriptor[n], n, Placeholder, "main").d, ents, many)

\* the queries of eager loading, in the order the names were given to with_
EagerQueries(E, L) ==
    (IF "enrolments" \in E THEN L["enrolments"].queries ELSE <<>>)
        \o (IF "students" \in E THEN L["students"].queries ELSE <<>>)

\* Course.where_in("course_id", K).with_(E).get(), or .first() when one: the
\* root query, then every relationship of E resolved once for the result (a
\* Collection from get(), the entity itself from first()) and registered on
\* each owner
FetchDone(K, E, one, root, ents, L) ==
    /\ IF one /\ ents = <<>>
       THEN /\ owners' = <<>>
            /\ queries' = <<root>>
            /\ descriptor' = descriptor
            /\ ret' = None
       ELSE /\ owners' = [i \in 1..Len(ents) |->
                            [ents[i] EXCEPT !.rels = [n \in E |-> L[n].val[i]]]]
            /\ queries' = <<root>> \o EagerQueries(E, L)
            /\ descriptor' = [n \in RelNames |->
                                IF n \in E THEN L[n].d ELSE descriptor[n]]
            /\ ret' = Coll([i \in 1..Len(ents) |-> ents[i].attrs])
    /\ op' = [NoOp EXCEPT !.name = IF one THEN "first" ELSE "get",
                          !.keys = K, !.eagers = E]
    /\ keyReads' = 0
    /\ NotRepeated
    /\ UNCHANGED <<course, student, enrolment>>

FetchEager(K, E, one, root, ents) ==
    FetchDone(K, E, one, root, ents, [n \in E |-> EagerOf(n, ents, ~one)])

Fetch(K, E, one) ==
    FetchEager(K, E, one,
               Query("select", "course", "course_id", SortedSeq(K), IF one THEN 1 ELSE 0),
               HydrateAll(Exec(Query("select", "course", "course_id", SortedSeq(K),
                                     IF one THEN 1 ELSE 0))))

Get(K, E) == Fetch(K, E, FALSE) /\ RelFrame

First(K, E) == Fetch(K, E, TRUE) /\ RelFrame

\* what a call of __get__ leaves behind and returns
Deliver(n, g) ==
    /\ descriptor' = [descriptor EXCEPT ![n] = g.d]
    /\ ret' = g.r.ret
    /\ queries' = g.r.queries
    /\ keyReads' = g.r.keyReads

\* owners[i].<n> on a loaded entity
Access(i, n) ==
    /\ i \in 1..Len(owners)
    /\ Deliver(n, Get__(descriptor[n], n, owners[i], "main"))
    /\ op' = [NoOp EXCEPT !.name = "access", !.rel = n, !.idx = i]
    /\ repeat' = (op.name = "access" /\ op.idx = i /\ op.rel = n)
    /\ sameRet' = (repeat' /\ ret' = ret)
    /\ UNCHANGED <<course, student, enrolment, owners>>
    /\ RelFrame

\* the relationship read on the model of a query scope (is_loaded() false)
ClassAccess(n) ==
    /\ Deliver(n, Get__(descriptor[n], n, Placeholder, "main"))
    /\ op' = [NoOp EXCEPT !.name = "class_access", !.rel = n]
    /\ NotRepeated
    /\ UNCHANGED <<course, student, enrolment, owners>>
    /\ RelFrame

\* Course.where_has(n, callback).get(): the descriptor is looked up on the
\* model of the query scope and adds its EXISTS clause to the course query
WhereHasRun(n, callback, d2, rows, q) ==
    /\ descriptor' = [descriptor EXCEPT ![n] = d2]
    /\ owners' = HydrateAll(rows)
    /\ ret' = Coll(rows)
    /\ queries' = <<q>>
    /\ keyReads' = 0
    /\ op' = [NoOp EXCEPT !.name = "where_has", !.rel = n, !.callback = callback]
    /\ NotRepeated
    /\ UNCHANGED <<course, student, enrolment>>

WhereHasQuery(n, callback, d2, q) == WhereHasRun(n, callback, d2, Exec(q), q)

WhereHasOn(n, callback, d2) ==
    WhereHasQuery(n, callback, d2,
        [Query("select", "course", "*", <<>>, 0)
         EXCEPT !.exists = query_where_exists(d2, "course", callback, "where_exists")])

WhereHas(n, callback) ==
    /\ descriptor[n].kind # "HasManyThrough"
    /\ WhereHasOn(n, callback, Get__(descriptor[n], n, Placeholder, "main").d)
    /\ RelFrame

RelInit ==
    /\ course = CourseFixture
    /\ student = StudentFixture
    /\ enrolment \in EnrolmentTables
    /\ descriptor = Declared
    /\ owners = <<>>
    /\ op = NoOp
    /\ ret = None
    /\ queries = <<>>
    /\ keyReads = 0
    /\ repeat = FALSE
    /\ sameRet = FALSE

RelNext ==
    \/ \E K \in RootKeySets, E \in SUBSET RelNames : Get(K, E)
    \/ \E K \in RootKeySets, E \in SUBSET RelNames : First(K, E)
    \/ \E i \in 1..Len(owners), n \in RelNames : Access(i, n)
    \/ \E n \in RelNames : ClassAccess(n)
    \/ \E n \in RelNames, cb \in Callbacks : WhereHas(n, cb)

----------------------------------------------------------------------------
(* Attaching and detaching related records of the direct relationship
   Course.enrolments, between accesses to owners in hand *)

\* Model.update(values) of a record of the table: the row with the record's
\* primary key gets the value, every other row is left as it is
Update(table, record, column, value) ==
    [k \in 1..Len(table) |->
        IF table[k].enrolment_id = record.enrolment_id
        THEN [table[k] EXCEPT ![column] = value]
        ELSE table[k]]

\* Model.where({column: value}).delete(): every row with that value goes
DeleteWhere(table, column, value) ==
    SelectSeq(table, LAMBDA r : r[column] # value)

attach_LeavesKey(d, current_model, related_record, table) == table

\* BaseRelationship.attach(current_model, related_record), on the related
\* table as it is: the table after the update
attach(d, current_model, related_record, table) ==
    Update(table, related_record, d.foreign_key, current_model.attrs[d.local_key])

\* BaseRelationship.detach(current_model, related_record)
detach(d, current_model, related_record, table) ==
    Update(table, related_record, d.foreign_key, NULL)

\* BaseRelationship.detach_related(current_model, related_record)
detach_related(d, current_model, related_record, table) ==
    DeleteWhere(table, d.foreign_key, current_model.attrs[d.local_key])

\* the enrolment tables attach and detach start from
MutPairs == {<<100, 10>>, <<200, 20>>}
MutTables == {BulkCreateEnrolment(p) : p \in SeqsUpTo(MutPairs, MaxMutRows)}

\* owner keys an application may assign to an entity in hand
MutKeys == {10, 20}
\* the root query of the owners in hand
MutRoots == {{10}}

\* a call that changes the enrolment table; the query log and the last
\* accessor result start anew
Mutate(name, i, j, table) ==
    /\ enrolment' = table
    /\ op' = [NoOp EXCEPT !.name = name, !.rel = "enrolments", !.idx = i,
                          !.rec = enrolment[j].enrolment_id]
    /\ repeat' = (name = "detach" /\ op.name = "attach" /\ op.idx = i
                    /\ op.rec = enrolment[j].enrolment_id)
    /\ sameRet' = FALSE
    /\ ret' = None
    /\ queries' = <<>>
    /\ keyReads' = 0
    /\ UNCHANGED <<course, student, descriptor, owners>>
    /\ RelFrame

\* owners[i].attach("enrolments", record j of the table)
Attach(i, j) ==
    Mutate("attach", i, j, attach(descriptor["enrolments"], owners[i], enrolment[j],
                                  enrolment))

\* owners[i].detach("enrolments", record j of the table)
Detach(i, j) ==
    Mutate("detach", i, j, detach(descriptor["enrolments"], owners[i], enrolment[j],
                                  enrolment))

\* owners[i].detach_related("enrolments", record j of the table)
DetachRelated(i, j) ==
    Mutate("detach_related", i, j,
           detach_related(descriptor["enrolments"], owners[i], enrolment[j], enrolment))

\* owners[i].course_id = v: the key attribute of an entity in hand is
\* assigned, nothing is saved
SetKey(i, v) ==
    /\ owners[i].attrs.course_id # v
    /\ owners' = [owners EXCEPT ![i].attrs.course_id = v]
    /\ op' = [NoOp EXCEPT !.name = "set_key", !.idx = i]
    /\ NotRepeated
    /\ ret' = None
    /\ queries' = <<>>
    /\ keyReads' = 0
    /\ UNCHANGED <<course, student, enrolment, descriptor>>
    /\ RelFrame

MutNext ==
    \/ \E K \in MutRoots, E \in SUBSET {"enrolments"} : Get(K, E)
    \/ \E i \in 1..Len(owners) : Access(i, "enrolments")
    \/ \E i \in 1..Len(owners), j \in 1..Len(enrolment) : Attach(i, j)
    \/ \E i \in 1..Len(owners), j \in 1..Len(enrolment) : Detach(i, j)
    \/ \E i \in 1..Len(owners), j \in 1..Len(enrolment) : DetachRelated(i, j)
    \/ \E i \in 1..Len(owners), v \in MutKeys : SetKey(i, v)

----------------------------------------------------------------------------
(* has / doesnt_have and where_has / where_doesnt_have on Course *)

Methods == {"where_exists", "where_not_exists"}

\* the course query with the clause of the relationship, run
HasRun(name, n, callback, method, d2, q) ==
    /\ descriptor' = [descriptor EXCEPT ![n] = d2]
    /\ owners' = HydrateAll(Exec(q))
    /\ ret' = Coll(Exec(q))
    /\ queries' = <<q>>
    /\ keyReads' = 0
    /\ op' = [NoOp EXCEPT !.name = name, !.rel = n, !.callback = callback,
                          !.method = method]
    /\ NotRepeated
    /\ UNCHANGED <<course, student, enrolment>>
    /\ RelFrame

HasOn(n, method, d2) ==
    HasRun("has", n, AlwaysTrue, method, d2,
           [Query("select", "course", "*", <<>>, 0)
            EXCEPT !.exists = query_has(d2, "course", method)])

\* Course.has(n).get() and Course.doesnt_have(n).get()
Has(n, method) ==
    /\ descriptor[n].kind # "HasManyThrough"
    /\ HasOn(n, method, Get__(descriptor[n], n, Placeholder, "main").d)

WhereHasModeOn(n, callback, method, d2) ==
    HasRun("where_has_mode", n, callback, method, d2,
           [Query("select", "course", "*", <<>>, 0)
            EXCEPT !.exists = query_where_exists(d2, "course", callback, method)])

\* Course.where_has(n, callback).get() and
\* Course.where_doesnt_have(n, callback).get()
WhereHasMode(n, callback, method) ==
    /\ descriptor[n].kind # "HasManyThrough"
    /\ WhereHasModeOn(n, callback, method,
                      Get__(descriptor[n], n, Placeholder, "main").d)

HasNext ==
    \/ \E n \in RelNames, m \in Methods : Has(n, m)
    \/ \E n \in RelNames, cb \in Callbacks, m \in Methods : WhereHasMode(n, cb, m)

----------------------------------------------------------------------------
(* get_related of Course.enrolments on owners handed in by the caller *)

\* the Collections of owners: any courses, in any order, repeated or not
OwnerCollections ==
    {HydrateAll(rows) : rows \in SeqsUpTo(ToSet(CourseFixture), MaxOwners)}

\* descriptor.get_related(query, relation): relation is the Collection owners
\* (i = 0) or the one entity owners[i]
GetRelatedRun(i, batch) ==
    /\ ret' = Coll(batch.rows)
    /\ queries' = batch.queries
    /\ keyReads' = 0
    /\ op' = [NoOp EXCEPT !.name = "get_related", !.rel = "enrolments", !.idx = i]
    /\ NotRepeated
    /\ UNCHANGED <<course, student, enrolment, owners>>
    /\ RelFrame

GetRelatedOn(i, d2) ==
    /\ descriptor' = [descriptor EXCEPT !["enrolments"] = d2]
    /\ GetRelatedRun(i, get_related(d2, IF i = 0
                                        THEN [many |-> TRUE, items |-> owners]
                                        ELSE [many |-> FALSE, items |-> <<owners[i]>>]))

GetRelated(i) ==
    GetRelatedOn(i, Get__(descriptor["enrolments"], "enrolments", Placeholder, "main").d)

KeysNext == \E i \in 0..Len(owners) : GetRelated(i)

----------------------------------------------------------------------------
(* Two callers inside BaseRelationship.__get__ of one class, one step per
   statement *)

Callers == {"t1", "t2"}

Idle == [pc |-> "idle", rel |-> "none", loaded |-> FALSE, builder |-> NoBuilder,
         used |-> NoBuilder]

\* lines 54-55: attribute = self.fn.__name__; relationship = self.fn(instance)()
DescEnter(t, n, loaded) ==
    /\ caller[t].pc \in {"idle", "done"}
    /\ caller' = [caller EXCEPT ![t] =
                     [pc |-> "store", rel |-> n, loaded |-> loaded,
                      builder |-> [table |-> descriptor[n].fn.related, by |-> t],
                      used |-> NoBuilder]]
    /\ UNCHANGED descriptor
    /\ DescFrame

\* lines 56-57: self.set_keys(...); self._related_builder = relationship.builder
DescStore(t) ==
    /\ caller[t].pc = "store"
    /\ descriptor' = [descriptor EXCEPT ![caller[t].rel] =
                         StoreBuilder(descriptor[caller[t].rel], t)]
    /\ caller' = [caller EXCEPT ![t].pc = "branch"]
    /\ DescFrame

\* lines 59-66: a loaded instance is resolved with self._related_builder as
\* the descriptor holds it now; an instance that is not loaded gets self
DescResolve(t) ==
    /\ caller[t].pc = "branch"
    /\ caller' = [caller EXCEPT
                     ![t].pc = "done",
                     ![t].used = IF caller[t].loaded
                                 THEN get_builder(descriptor[caller[t].rel])
                                 ELSE NoBuilder]
    /\ UNCHANGED descriptor
    /\ DescFrame

DescNext ==
    \/ \E t \in Callers, n \in RelNames, l \in BOOLEAN : DescEnter(t, n, l)
    \/ \E t \in Callers : DescStore(t)
    \/ \E t \in Callers : DescResolve(t)

----------------------------------------------------------------------------
(* PostgresConnection objects sharing CONNECTION_POOL, each used by one
   thread, one step per statement that touches the pool *)

Conns == {"a", "b"}
Phys == 1..MaxPhys

NoExc == [type |-> "none", msg |-> "none"]
OperationalError == [type |-> "OperationalError", msg |-> "could not connect"]
ProgrammingError == [type |-> "ProgrammingError", msg |-> "syntax error"]
InterfaceError == [type |-> "InterfaceError", msg |-> "connection already closed"]
AttributeError == [type |-> "AttributeError", msg |-> "NoneType"]
IndexError == [type |-> "IndexError", msg |-> "pop from empty list"]

\* line 222: raise QueryException(str(e)) from e
QueryException(e) == [type |-> "QueryException", msg |-> e.msg]

NoOut == [call |-> "none", status |-> "none", exc |-> NoExc, driver |-> "none",
          stmts |-> 0, released |-> 0, tx |-> "none", before |-> 0]

\* PostgresConnection.__init__ (with _connection = None of the base class)
\* released counts the connections the running call put into the pool or
\* closed; depth and pinned keep the begin() calls not yet matched and the
\* connection the outermost of them was called on
NewConn == [pc |-> "idle", call |-> "none", _connection |-> NULL, open |-> 0,
            transaction_level |-> 0, todo |-> 0, exc |-> NoExc, driver |-> "none",
            stmts |-> 0, released |-> 0, depth |-> 0, pinned |-> NULL]

\* physical connections no object and no pool slot refers to: a new
\* connection is one of them
FreeIds ==
    {c \in Phys : (\A i \in 1..Len(pool) : pool[i] # c)
                    /\ (\A o \in Conns : conn[o]._connection # c
                                          /\ conn[o].pinned # c)}

NewId == CHOOSE c \in FreeIds : \A x \in FreeIds : c <= x

\* the call of object o ends: ok, or raising e
Outcome(c, e) ==
    [call |-> c.call, status |-> IF e = NoExc THEN "ok" ELSE "raised", exc |-> e,
     driver |-> c.driver, stmts |-> c.stmts, released |-> c.released,
     tx |-> "none", before |-> c.transaction_level]

Finished(c) == [c EXCEPT !.pc = "idle", !.call = "none", !.exc = NoExc,
                         !.driver = "none", !.stmts = 0, !.todo = 0,
                         !.released = 0]

\* exception e is raised in object o, left as c by the raising statement:
\* inside query() it is caught, wrapped (line 222) and the finally clause
\* runs; elsewhere it reaches the caller
Raise(o, c, e, fromDriver) ==
    LET c1 == IF fromDriver THEN [c EXCEPT !.driver = e.msg] ELSE c
    IN IF c.call = "query"
       THEN /\ conn' = [conn EXCEPT ![o] = [c1 EXCEPT !.exc = QueryException(e),
                                                      !.pc = "finally"]]
            /\ out' = out
       ELSE /\ conn' = [conn EXCEPT ![o] = Finished(c1)]
            /\ out' = [out EXCEPT ![o] = Outcome(c1, e)]

\* the call returns (or re-raises the exception pending since the try block)
Return(o, c) ==
    /\ conn' = [conn EXCEPT ![o] = Finished(c)]
    /\ out' = [out EXCEPT ![o] = Outcome(c, c.exc)]

\* query(), line 202: connect first unless a live connection is held
StartQuery(o) ==
    /\ conn[o].pc = "idle"
    /\ conn' = [conn EXCEPT ![o].call = "query",
                            ![o].pc = IF conn[o]._connection = NULL
                                         \/ conn[o]._connection \in closed
                                      THEN "cc_init" ELSE "execute"]
    /\ out' = [out EXCEPT ![o] = NoOut]
    /\ UNCHANGED <<cfg, pool, closed>>
    /\ UNCHANGED autocommit
    /\ ConnFrame

\* make_connection() called by the application
StartMake(o) ==
    /\ conn[o].pc = "idle"
    /\ conn' = [conn EXCEPT ![o].call = "make", ![o].pc = "cc_init"]
    /\ out' = [out EXCEPT ![o] = NoOut]
    /\ UNCHANGED <<cfg, pool, closed>>
    /\ UNCHANGED autocommit
    /\ ConnFrame

\* close_connection() called by the application
StartClose(o) ==
    /\ conn[o].pc = "idle"
    /\ conn' = [conn EXCEPT ![o].call = "close", ![o].pc = "cl_test"]
    /\ out' = [out EXCEPT ![o] = NoOut]
    /\ UNCHANGED <<cfg, pool, closed>>
    /\ UNCHANGED autocommit
    /\ ConnFrame

\* create_connection, lines 75-81: the pool is filled up to min_size; the
\* number of connections to add is fixed when the loop starts
CcInit(o) ==
    /\ conn[o].pc = "cc_init"
    /\ conn' = IF cfg.enabled /\ cfg.min_size > 0 /\ Len(pool) < cfg.min_size
               THEN [conn EXCEPT ![o].pc = "cc_fill",
                                 ![o].todo = cfg.min_size - Len(pool)]
               ELSE [conn EXCEPT ![o].pc = "cc_test"]
    /\ UNCHANGED <<cfg, pool, closed, out>>
    /\ UNCHANGED autocommit
    /\ ConnFrame

\* lines 82-98, one round of the loop: connect and append
CcFillOk(o) ==
    /\ conn[o].pc = "cc_fill"
    /\ FreeIds # {}
    /\ pool' = Append(pool, NewId)
    /\ closed' = closed \ {NewId}
    /\ autocommit' = [autocommit EXCEPT ![NewId] = FALSE]
    /\ conn' = [conn EXCEPT ![o].todo = @ - 1,
                            ![o].pc = IF conn[o].todo = 1 THEN "cc_test" ELSE "cc_fill"]
    /\ UNCHANGED <<cfg, out>>
    /\ ConnFrame

CcFillFails(o) ==
    /\ conn[o].pc = "cc_fill"
    /\ Raise(o, conn[o], OperationalError, TRUE)
    /\ UNCHANGED <<cfg, pool, closed>>
    /\ UNCHANGED autocommit
    /\ ConnFrame

\* lines 100-104: is there a pooled connection to take?
CcTest(o) ==
    /\ conn[o].pc = "cc_test"
    /\ conn' = [conn EXCEPT ![o].pc = IF cfg.enabled /\ Len(pool) > 0
                                      THEN "cc_pop" ELSE "cc_connect"]
    /\ UNCHANGED <<cfg, pool, closed, out>>
    /\ UNCHANGED autocommit
    /\ ConnFrame

\* make_connection, lines 61-69, with the connection create_connection
\* returned: a None taken from the pool has no autocommit attribute
MakeFinish(o, c) ==
    IF c = NULL
    THEN /\ Raise(o, [conn[o] EXCEPT !._connection = NULL], AttributeError, FALSE)
         /\ autocommit' = autocommit
    ELSE /\ autocommit' = [autocommit EXCEPT ![c] = TRUE]
         /\ IF conn[o].call = "query"
            THEN /\ conn' = [conn EXCEPT ![o]._connection = c, ![o].open = 1,
                                         ![o].pc = "execute"]
                 /\ out' = out
            ELSE Return(o, [conn[o] EXCEPT !._connection = c, !.open = 1])

\* line 105: connection = CONNECTION_POOL.pop()
CcPop(o) ==
    /\ conn[o].pc = "cc_pop"
    /\ IF pool = <<>>
       THEN /\ Raise(o, conn[o], IndexError, FALSE)
            /\ pool' = pool
            /\ autocommit' = autocommit
       ELSE /\ pool' = SubSeq(pool, 1, Len(pool) - 1)
            /\ MakeFinish(o, pool[Len(pool)])
    /\ UNCHANGED <<cfg, closed>>
    /\ ConnFrame

\* lines 107-122: connection = psycopg2.connect(...)
CcConnectOk(o) ==
    /\ conn[o].pc = "cc_connect"
    /\ FreeIds # {}
    /\ closed' = closed \ {NewId}
    /\ MakeFinish(o, NewId)
    /\ UNCHANGED <<cfg, pool>>
    /\ ConnFrame

CcConnectFails(o) ==
    /\ conn[o].pc = "cc_connect"
    /\ Raise(o, conn[o], OperationalError, TRUE)
    /\ UNCHANGED <<cfg, pool, closed>>
    /\ UNCHANGED autocommit
    /\ ConnFrame

\* lines 205-220: set_cursor and the statement; a closed connection gives no
\* cursor
ExecuteOk(o) ==
    /\ conn[o].pc = "execute"
    /\ conn[o]._connection \notin closed
    /\ conn' = [conn EXCEPT ![o].stmts = @ + 1, ![o].pc = "finally"]
    /\ UNCHANGED <<cfg, pool, closed, out>>
    /\ UNCHANGED autocommit
    /\ ConnFrame

ExecuteFails(o) ==
    /\ conn[o].pc = "execute"
    /\ IF conn[o]._connection \in closed
       THEN Raise(o, conn[o], InterfaceError, TRUE)
       ELSE Raise(o, [conn[o] EXCEPT !.stmts = @ + 1], ProgrammingError, TRUE)
    /\ UNCHANGED <<cfg, pool, closed>>
    /\ UNCHANGED autocommit
    /\ ConnFrame

\* close_connection, lines 145-148: is there room in the pool?
RoomInPool == cfg.enabled /\ Len(pool) < cfg.max_size

\* query() that leaves the finally clause without releasing anything
Finally_NoRelease(o) ==
    /\ conn[o].pc = "finally"
    /\ Return(o, conn[o])
    /\ UNCHANGED <<cfg, pool, closed>>
    /\ UNCHANGED autocommit
    /\ ConnFrame

\* lines 223-226: finally: outside a transaction the connection is released
Finally(o) ==
    /\ conn[o].pc = "finally"
    /\ IF conn[o].transaction_level <= 0
       THEN /\ conn' = [conn EXCEPT ![o].open = 0,
                                    ![o].pc = IF RoomInPool THEN "cl_append"
                                              ELSE "cl_close"]
            /\ out' = out
       ELSE Return(o, conn[o])
    /\ UNCHANGED <<cfg, pool, closed>>
    /\ UNCHANGED autocommit
    /\ ConnFrame

ClTest(o) ==
    /\ conn[o].pc = "cl_test"
    /\ conn' = [conn EXCEPT ![o].pc = IF RoomInPool THEN "cl_append" ELSE "cl_close"]
    /\ UNCHANGED <<cfg, pool, closed, out>>
    /\ UNCHANGED autocommit
    /\ ConnFrame

\* line 149: CONNECTION_POOL.append(self._connection)
ClAppend(o) ==
    /\ conn[o].pc = "cl_append"
    /\ pool' = Append(pool, conn[o]._connection)
    /\ conn' = [conn EXCEPT ![o].pc = "cl_none",
                            ![o].released = IF conn[o]._connection = NULL
                                            THEN @ ELSE @ + 1]
    /\ UNCHANGED <<cfg, closed, out>>
    /\ UNCHANGED autocommit
    /\ ConnFrame

\* lines 151-153: self._connection.close(); self._connection = None. Raised
\* in the finally clause of query(), the AttributeError of None.close()
\* replaces the exception that was pending.
ClClose(o) ==
    /\ conn[o].pc = "cl_close"
    /\ IF conn[o]._connection = NULL
       THEN /\ conn' = [conn EXCEPT ![o] = Finished(conn[o])]
            /\ out' = [out EXCEPT ![o] = Outcome(conn[o], AttributeError)]
            /\ closed' = closed
       ELSE /\ closed' = closed \cup {conn[o]._connection}
            /\ Return(o, [conn[o] EXCEPT !._connection = NULL, !.released = @ + 1])
    /\ UNCHANGED <<cfg, pool>>
    /\ UNCHANGED autocommit
    /\ ConnFrame

\* line 153 after line 149: self._connection = None
ClNone(o) ==
    /\ conn[o].pc = "cl_none"
    /\ Return(o, [conn[o] EXCEPT !._connection = NULL])
    /\ UNCHANGED <<cfg, pool, closed>>
    /\ UNCHANGED autocommit
    /\ ConnFrame

\* the outcome of begin(), commit() or rollback(): tx is the method of the
\* physical connection the call invoked
TxOutcome(name, c, e, tx) ==
    [NoOut EXCEPT !.call = name, !.status = IF e = NoExc THEN "ok" ELSE "raised",
                  !.exc = e, !.tx = tx, !.before = c.transaction_level]

\* begin(), lines 163-167: autocommit off on the held connection, one level
\* up; without a connection line 165 raises and nothing changes
Begin(o) ==
    /\ conn[o].pc = "idle"
    /\ conn[o].transaction_level < MaxLevel
    /\ IF conn[o]._connection = NULL
       THEN /\ out' = [out EXCEPT ![o] = TxOutcome("begin", conn[o], AttributeError,
                                                   "none")]
            /\ UNCHANGED <<conn, autocommit>>
       ELSE /\ autocommit' = [autocommit EXCEPT ![conn[o]._connection] = FALSE]
            /\ conn' = [conn EXCEPT
                           ![o].transaction_level = @ + 1,
                           ![o].depth = @ + 1,
                           ![o].pinned = IF conn[o].depth = 0
                                         THEN conn[o]._connection ELSE @]
            /\ out' = [out EXCEPT ![o] = TxOutcome("begin", conn[o], NoExc, "none")]
    /\ UNCHANGED <<cfg, pool, closed>>
    /\ ConnFrame

\* commit() (lines 155-161) and rollback() (lines 169-175): at level 1 the
\* connection's method is invoked and autocommit is set again; the level
\* goes one down whatever it was. Without a usable connection the method
\* call at level 1 raises and nothing changes.
EndTransaction(o, name) ==
    /\ conn[o].pc = "idle"
    /\ conn[o].transaction_level > -MaxLevel
    /\ IF conn[o].transaction_level = 1
          /\ (conn[o]._connection = NULL \/ conn[o]._connection \in closed)
       THEN /\ out' = [out EXCEPT ![o] =
                         TxOutcome(name, conn[o],
                                   IF conn[o]._connection = NULL
                                   THEN AttributeError ELSE InterfaceError, "none")]
            /\ UNCHANGED <<conn, autocommit>>
       ELSE /\ autocommit' = IF conn[o].transaction_level = 1
                             THEN [autocommit EXCEPT ![conn[o]._connection] = TRUE]
                             ELSE autocommit
            /\ conn' = [conn EXCEPT
                           ![o].transaction_level = @ - 1,
                           ![o].depth = IF @ > 0 THEN @ - 1 ELSE 0,
                           ![o].pinned = IF conn[o].depth <= 1 THEN NULL ELSE @]
            /\ out' = [out EXCEPT ![o] =
                         TxOutcome(name, conn[o], NoExc,
                                   IF conn[o].transaction_level = 1
                                   THEN name ELSE "none")]
    /\ UNCHANGED <<cfg, pool, closed>>
    /\ ConnFrame

Commit(o) == EndTransaction(o, "commit")

Rollback(o) == EndTransaction(o, "rollback")

Configs ==
    [enabled : BOOLEAN, min_size : 0..MaxMinSize, max_size : 1..MaxPoolSize]

ConnInit ==
    /\ cfg \in Configs
    /\ pool = <<>>
    /\ closed = {}
    /\ autocommit = [c \in Phys |-> FALSE]
    /\ conn = [o \in Conns |-> NewConn]
    /\ out = [o \in Conns |-> NoOut]

ConnNext ==
    \/ \E o \in Conns : StartQuery(o)
    \/ \E o \in Conns : StartMake(o)
    \/ \E o \in Conns : StartClose(o)
    \/ \E o \in Conns : CcInit(o)
    \/ \E o \in Conns : CcFillOk(o)
    \/ \E o \in Conns : CcFillFails(o)
    \/ \E o \in Conns : CcTest(o)
    \/ \E o \in Conns : CcPop(o)
    \/ \E o \in Conns : CcConnectOk(o)
    \/ \E o \in Conns : CcConnectFails(o)
    \/ \E o \in Conns : ExecuteOk(o)
    \/ \E o \in Conns : ExecuteFails(o)
    \/ \E o \in Conns : Finally(o)
    \/ \E o \in Conns : ClTest(o)
    \/ \E o \in Conns : ClAppend(o)
    \/ \E o \in Conns : ClClose(o)
    \/ \E o \in Conns : ClNone(o)

\* one PostgresConnection object used for queries and transactions
TxConns == {"a"}

TxNext ==
    \/ \E o \in TxConns : StartQuery(o)
    \/ \E o \in TxConns : StartMake(o)
    \/ \E o \in TxConns : CcInit(o)
    \/ \E o \in TxConns : CcFillOk(o)
    \/ \E o \in TxConns : CcFillFails(o)
    \/ \E o \in TxConns : CcTest(o)
    \/ \E o \in TxConns : CcPop(o)
    \/ \E o \in TxConns : CcConnectOk(o)
    \/ \E o \in TxConns : CcConnectFails(o)
    \/ \E o \in TxConns : ExecuteOk(o)
    \/ \E o \in TxConns : ExecuteFails(o)
    \/ \E o \in TxConns : Finally(o)
    \/ \E o \in TxConns : ClAppend(o)
    \/ \E o \in TxConns : ClClose(o)
    \/ \E o \in TxConns : ClNone(o)
    \/ \E o \in TxConns : Begin(o)
    \/ \E o \in TxConns : Commit(o)
    \/ \E o \in TxConns : Rollback(o)

----------------------------------------------------------------------------
(* Specifications *)

\* a fixed state of the parts a specification leaves alone
RelQuiet ==
    /\ course = CourseFixture
    /\ student = StudentFixture
    /\ enrolment = BulkCreateEnrolment(EnrolmentFixture)
    /\ owners = <<>>
    /\ op = NoOp
    /\ ret = None
    /\ queries = <<>>
    /\ keyReads = 0
    /\ repeat = FALSE
    /\ sameRet = FALSE

DescQuiet == caller = [t \in Callers |-> Idle]

ConnQuiet ==
    /\ cfg = [enabled |-> FALSE, min_size |-> 0, max_size |-> 1]
    /\ pool = <<>>
    /\ closed = {}
    /\ autocommit = [c \in Phys |-> FALSE]
    /\ conn = [o \in Conns |-> NewConn]
    /\ out = [o \in Conns |-> NoOut]

Init == RelInit /\ DescQuiet /\ ConnQuiet
Next == RelNext
Spec == Init /\ [][Next]_vars

MutInit ==
    /\ course = CourseFixture
    /\ student = StudentFixture
    /\ enrolment \in MutTables
    /\ descriptor = Declared
    /\ owners = <<>>
    /\ op = NoOp
    /\ ret = None
    /\ queries = <<>>
    /\ keyReads = 0
    /\ repeat = FALSE
    /\ sameRet = FALSE
    /\ DescQuiet
    /\ ConnQuiet
SpecMut == MutInit /\ [][MutNext]_vars

SpecHas == Init /\ [][HasNext]_vars

KeysInit ==
    /\ course = CourseFixture
    /\ student = StudentFixture
    /\ enrolment = BulkCreateEnrolment(EnrolmentFixture)
    /\ descriptor = Declared
    /\ owners \in OwnerCollections
    /\ op = NoOp
    /\ ret = None
    /\ queries = <<>>
    /\ keyReads = 0
    /\ repeat = FALSE
    /\ sameRet = FALSE
    /\ DescQuiet
    /\ ConnQuiet
SpecKeys == KeysInit /\ [][KeysNext]_vars

DescInit == RelQuiet /\ descriptor = Declared /\ DescQuiet /\ ConnQuiet
SpecDesc == DescInit /\ [][DescNext]_vars

ConnStart == RelQuiet /\ descriptor = Declared /\ DescQuiet /\ ConnInit
SpecConn == ConnStart /\ [][ConnNext]_vars

SpecTx == ConnStart /\ [][TxNext]_vars

----------------------------------------------------------------------------
(* Properties of the relationship engine (Spec) *)

IsThrough(n) == descriptor[n].kind = "HasManyThrough"

Fetched == op.name \in {"get", "first"}

QueriesFor(n) == SelectSeq(queries, LAMBDA q : q.rel = n)

C2_SecondAccessCached ==
    (op.name = "access" /\ repeat /\ op.rel \notin DOMAIN owners[op.idx].rels) =>
        (sameRet /\ queries = <<>>)

\* C3: mode switch. The relationship read on an entity that is not loaded
\* issues no query, reads no key attribute and returns the chainable object
\* whose attribute lookups go to the related model's builder; read on a loaded
\* entity it returns resolved data (None or a Collection), never that object.
C3_ModeSwitch ==
    /\ op.name = "class_access" =>
            /\ queries = <<>>
            /\ keyReads = 0
            /\ ret = SelfRef
            /\ Getattr__(descriptor[op.rel], "where").table = descriptor[op.rel].fn.related
    /\ op.name = "access" => ret.kind \in {"None", "Collection"}

C3_Witness ==
    /\ op.name = "class_access" /\ op.rel = "students" /\ enrolment # <<>>
    /\ ret.kind = "Descriptor"

\* C4: single/batch consistency. After .with_(E).get() or .with_(E).first(),
\* the value registered on every owner for every relationship of E is the
\* value lazy resolution yields for the same owner row on the same tables:
\* same rows, same count, same order.
C4_SingleBatchConsistent ==
    Fetched =>
        \A i \in 1..Len(owners) :
            \A n \in DOMAIN owners[i].rels :
                owners[i].rels[n]
                    = Get__(descriptor[n], n, Hydrate(owners[i].attrs), "main").r.ret

C4_Witness ==
    /\ op.name = "first" /\ op.eagers = RelNames /\ Len(owners) = 1
    /\ Len(owners[1].rels["students"].rows) = 2
    /\ Len(owners[1].rels["enrolments"].rows) = 2

PivotRowsOf(e) ==
    SelectSeq(enrolment, LAMBDA p : p.in_course_id = e.attrs.course_id)

\* C5: empty relationship policy. An owner without pivot rows has students
\* None, both eager-loaded (get, first) and resolved lazily.
C5_EmptyThroughIsNone ==
    /\ Fetched =>
            \A i \in 1..Len(owners) :
                ("students" \in DOMAIN owners[i].rels /\ PivotRowsOf(owners[i]) = <<>>)
                    => owners[i].rels["students"] = None
    /\ (op.name = "access" /\ op.rel = "students"
            /\ PivotRowsOf(owners[op.idx]) = <<>>) => ret = None

C5_Witness ==
    /\ op.name = "access" /\ op.rel = "students"
    /\ owners[op.idx].attrs.name = "Biology 302"
    /\ owners[op.idx].rels = NoRels
    /\ enrolment = BulkCreateEnrolment(EnrolmentFixture)
    /\ ret = None

\* the rank of the first pivot row that links owner e to student row r
FirstPivot(e, r) ==
    CHOOSE j \in 1..Len(enrolment) :
        /\ enrolment[j].in_course_id = e.attrs.course_id
        /\ enrolment[j].active_student_id = r.student_id
        /\ \A k \in 1..(j - 1) :
              ~(enrolment[k].in_course_id = e.attrs.course_id
                  /\ enrolment[k].active_student_id = r.student_id)

\* value is the students of owner e: exactly the student rows linked to e by
\* a pivot row, each once, in the order of their first pivot rows
StudentsOf(e, value) ==
    /\ ToSet(value.rows)
         = {r \in ToSet(student) :
               \E j \in 1..Len(enrolment) :
                   /\ enrolment[j].in_course_id = e.attrs.course_id
                   /\ enrolment[j].active_student_id = r.student_id}
    /\ \A a, b \in 1..Len(value.rows) :
           a < b => FirstPivot(e, value.rows[a]) < FirstPivot(e, value.rows[b])
    /\ (enrolment = BulkCreateEnrolment(EnrolmentFixture) /\ e.attrs.course_id = 10)
           => Pluck(value.rows, "name") = <<"Alice", "Bob">>

\* C6: key-grouping correctness of students, eager-loaded and lazy.
C6_KeyGrouping ==
    /\ Fetched =>
            \A i \in 1..Len(owners) :
                "students" \in DOMAIN owners[i].rels
                    => StudentsOf(owners[i], owners[i].rels["students"])
    /\ (op.name = "access" /\ op.rel = "students") => StudentsOf(owners[op.idx], ret)

C6_Witness ==
    /\ op.name = "get" /\ op.eagers = {"students"} /\ Len(owners) = 4
    /\ enrolment = BulkCreateEnrolment(EnrolmentFixture)
    /\ Pluck(owners[1].rels["students"].rows, "name") = <<"Alice", "Bob">>
    /\ Pluck(owners[3].rels["students"].rows, "name") = <<"Bob">>

CallbackHolds(cb, r) == cb.pcol = "none" \/ r[cb.pcol] = cb.pval

\* C7: where_has. where_has(R, pred) returns exactly the owners with at least
\* one related row whose foreign key is the owner's local key and which
\* satisfies pred; with no predicate, exactly the owners whose get_related
\* result is not empty.
C7_WhereHas ==
    op.name = "where_has" =>
        /\ ToSet(ret.rows)
             = {c \in ToSet(course) :
                   \E j \in 1..Len(Table(descriptor[op.rel].fn.related)) :
                       LET r == Table(descriptor[op.rel].fn.related)[j]
                       IN /\ r[descriptor[op.rel].foreign_key]
                               = c[descriptor[op.rel].local_key]
                          /\ CallbackHolds(op.callback, r)}
        /\ op.callback = AlwaysTrue =>
               ToSet(ret.rows)
                 = {c \in ToSet(course) :
                       get_related(descriptor[op.rel],
                                   [many |-> FALSE, items |-> <<Hydrate(c)>>]).rows # <<>>}

C7_Witness ==
    /\ op.name = "where_has" /\ op.callback.pval = 100
    /\ enrolment = BulkCreateEnrolment(EnrolmentFixture)
    /\ Pluck(ret.rows, "name") = <<"Math 101", "Math 302">>

\* C8: error propagation. A query() during which the driver raised (a refused
\* connection, a closed connection, a malformed statement) ends by raising
\* that failure to its caller: a QueryException carrying the driver's message,
\* never another exception and never a result, the statement run at most once.
C8_ErrorPropagation ==
    \A o \in Conns :
        (out[o].call = "query" /\ out[o].driver # "none") =>
            /\ out[o].status = "raised"
            /\ out[o].exc.type = "QueryException"
            /\ out[o].exc.msg = out[o].driver
            /\ out[o].stmts <= 1

\* C9: descriptor immutability. No step of a relationship access changes a
\* field of the class's descriptors, and a caller that resolved a loaded
\* instance did so with the related builder its own access created.
C9_DescriptorImmutable ==
    [][/\ descriptor' = descriptor
       /\ \A t \in Callers :
            (caller'[t].pc = "done" /\ caller'[t].loaded)
                => caller'[t].used = caller'[t].builder]_vars

\* the number of places that refer to physical connection c
Places(c) ==
    Cardinality({i \in 1..Len(pool) : pool[i] = c})
        + Cardinality({o \in Conns : conn[o]._connection = c})

\* C10: connection ownership. Every physical connection is in at most one
\* place (one pool slot or one object's _connection), and no call ends with
\* the failure of CONNECTION_POOL.pop() on a pool another caller emptied.
C10_ConnectionOwnership ==
    /\ \A c \in Phys : Places(c) <= 1
    /\ \A o \in Conns : out[o].exc.msg # IndexError.msg

\* C14: batched key list. get_related of a Collection of owners issues one
\* where_in whose list is the set of the owners' keys, each key once; of one
\* owner it issues one where on that owner's key.
C14_BatchedKeys ==
    op.name = "get_related" =>
        /\ Len(queries) = 1
        /\ queries[1].column = "in_course_id"
        /\ IF op.idx = 0
           THEN /\ queries[1].op = "where_in"
                /\ ToSet(queries[1].vals)
                     = {owners[i].attrs.course_id : i \in 1..Len(owners)}
                /\ Cardinality(ToSet(queries[1].vals)) = Len(queries[1].vals)
           ELSE /\ queries[1].op = "where"
                /\ queries[1].vals = <<owners[op.idx].attrs.course_id>>

\* three owners, two of them the same course: two keys in the list
C14_Witness ==
    /\ op.name = "get_related" /\ op.idx = 0
    /\ Len(owners) = 3
    /\ Len(queries[1].vals) = 2

\* course row c has a related row that satisfies the callback of the last call
HasRelated(c) ==
    \E j \in 1..Len(Table(descriptor[op.rel].fn.related)) :
        LET r == Table(descriptor[op.rel].fn.related)[j]
        IN /\ r[descriptor[op.rel].foreign_key] = c[descriptor[op.rel].local_key]
           /\ CallbackHolds(op.callback, r)

\* C15: EXISTS / NOT EXISTS mode. With where_exists the query selects the
\* owners that have a matching related row, with where_not_exists the owners
\* that have none: two disjoint sets that together are all owners. The clause
\* is the same but for its mode: related.foreign_key = current.local_key.
C15_ExistsModes ==
    op.name \in {"has", "where_has_mode"} =>
        /\ op.method = "where_exists" =>
               ToSet(ret.rows) = {c \in ToSet(course) : HasRelated(c)}
        /\ op.method = "where_not_exists" =>
               ToSet(ret.rows) = {c \in ToSet(course) : ~HasRelated(c)}
        /\ queries[1].exists
             = [mode |-> op.method, table |-> descriptor[op.rel].fn.related,
                foreign_key |-> descriptor[op.rel].foreign_key,
                local_key |-> descriptor[op.rel].local_key,
                pcol |-> op.callback.pcol, pval |-> op.callback.pval]

C15_Witness ==
    /\ op.name = "has" /\ op.method = "where_not_exists"
    /\ enrolment = BulkCreateEnrolment(EnrolmentFixture)
    /\ Pluck(ret.rows, "name") = <<"Biology 302">>

\* the rows a get_related issued now returns for owner o of enrolments
FreshRelated(o) ==
    get_related(Get__(descriptor["enrolments"], "enrolments", Placeholder, "main").d,
                [many |-> FALSE, items |-> <<o>>]).rows

\* the record the last attach or detach was given, as the table holds it
RecordOf(table, id) == {r \in ToSet(table) : r.enrolment_id = id}

\* C11: detach frame. A detach of a related record (detach, detach_related)
\* deletes no row of any table: the record's foreign key becomes null, every
\* other row of the table, the other tables and the owners stay as they were.
C11_DetachFrame ==
    [][op'.name \in {"detach", "detach_related"} =>
          /\ Len(enrolment') = Len(enrolment)
          /\ \A k \in 1..Len(enrolment) :
                enrolment'[k] = IF enrolment[k].enrolment_id = op'.rec
                                THEN [enrolment[k] EXCEPT !.in_course_id = NULL]
                                ELSE enrolment[k]
          /\ course' = course
          /\ student' = student
          /\ owners' = owners]_vars

\* C12: attach/resolve round trip. After attach(owner, r) the record r has
\* the owner's key as its foreign key and a get_related of the owner issued
\* now returns r; after a detach(owner, r) that follows, r still exists and a
\* get_related of the owner issued now does not return it.
C12_AttachRoundTrip ==
    /\ op.name = "attach" =>
            /\ RecordOf(enrolment, op.rec) # {}
            /\ \A r \in RecordOf(enrolment, op.rec) :
                   /\ r.in_course_id = owners[op.idx].attrs.course_id
                   /\ InSeq(r, FreshRelated(owners[op.idx]))
    /\ (op.name = "detach" /\ repeat) =>
            /\ RecordOf(enrolment, op.rec) # {}
            /\ \A r \in RecordOf(enrolment, op.rec) :
                   ~InSeq(r, FreshRelated(owners[op.idx]))

C12_Witness ==
    /\ op.name = "detach" /\ repeat
    /\ \E r \in RecordOf(enrolment, op.rec) :
          r.in_course_id = NULL /\ r.active_student_id = 200

\* C13: cache stability. An entry of an entity's relationship cache stays
\* as it is through attach, detach and assignments to the owner's key, and
\* an access to a cached name returns the entry and issues no query.
C13_CacheStable ==
    [][/\ op'.name \notin {"get", "first", "where_has"} =>
            /\ Len(owners') = Len(owners)
            /\ \A i \in 1..Len(owners) :
                   \A n \in DOMAIN owners[i].rels :
                       /\ n \in DOMAIN owners'[i].rels
                       /\ owners'[i].rels[n] = owners[i].rels[n]
       /\ (op'.name = "access" /\ op'.rel \in DOMAIN owners[op'.idx].rels) =>
            /\ ret' = owners[op'.idx].rels[op'.rel]
            /\ queries' = <<>>]_vars

\* an access answered from the cache although the tables have moved on
C13_Witness ==
    /\ op.name = "access" /\ op.rel \in DOMAIN owners[op.idx].rels
    /\ ret = owners[op.idx].rels[op.rel]
    /\ queries = <<>>
    /\ ret.rows # FreshRelated(owners[op.idx])

\* C16: pool bound. With pooling enabled CONNECTION_POOL never holds more
\* than connection_pooling_max_size connections, whatever the configured
\* connection_pooling_min_size.
C16_PoolBound == cfg.enabled => Len(pool) <= cfg.max_size

\* C17: pool contents are usable. Every element of CONNECTION_POOL is a
\* connection, not None, and it is open.
C17_PoolUsable ==
    \A i \in 1..Len(pool) : pool[i] # NULL /\ pool[i] \notin closed

C19_TransactionPinsConnection ==
    \A o \in TxConns :
        /\ conn[o].depth > 0 =>
               /\ conn[o].pc = "execute" => conn[o]._connection = conn[o].pinned
               /\ conn[o].pinned \notin closed
               /\ ~InSeq(conn[o].pinned, pool)
        /\ (conn[o].transaction_level > 0 /\ conn[o]._connection # NULL) =>
               /\ conn[o]._connection \notin closed
               /\ ~InSeq(conn[o]._connection, pool)

\* C20: nested transactions. The connection's commit() or rollback() is
\* invoked only by the call that takes transaction_level from 1 to 0, and
\* between calls the held connection's autocommit flag is False exactly when
\* transaction_level > 0 and True exactly when transaction_level = 0.
C20_NestedTransactions ==
    \A o \in TxConns :
        /\ out[o].tx # "none" =>
               out[o].before = 1 /\ conn[o].transaction_level = 0
        /\ (conn[o].pc = "idle" /\ conn[o]._connection # NULL) =>
               /\ ~autocommit[conn[o]._connection] <=> conn[o].transaction_level > 0
               /\ autocommit[conn[o]._connection] <=> conn[o].transaction_level = 0

\* C21: the transaction level is never negative. After any sequence of
\* begin / commit / rollback calls on a PostgresConnection, including
\* commit() or rollback() with no open transaction, transaction_level >= 0
\* and it equals the number of begin() calls not yet matched by a commit()
\* or rollback().
C21_TransactionLevelNonNegative ==
    \A o \in TxConns :
        /\ conn[o].transaction_level >= 0
        /\ conn[o].transaction_level = conn[o].depth

====
